---- MODULE Spec2Model ----
(***************************************************************************)
(* Milestara: milestone governance and fund accounting.                    *)
(*                                                                         *)
(* Three parts of the program are modelled, each from its source:          *)
(*   - the local contract service (milestoneContract.js) with the          *)
(*     GovernancePanel handlers that drive it: governance token balance,   *)
(*     token-weighted tallies and the locked amount, all in localStorage;  *)
(*   - the votes table and the milestone status (db/votes.js,              *)
(*     db/milestones.js, schema.sql);                                      *)
(*   - the funding ledger (useSupabase.recordFunding, db/transactions.js,  *)
(*     db/projects.js, schema.sql).                                        *)
(*                                                                         *)
(* Amounts of BCH are integers in units of 0.00001 BCH: 0.001 BCH is 100.  *)
(* Token quantities of the contract service (balance, tokensToUse, local   *)
(* tallies) are JavaScript numbers, counted here in halves of a token so   *)
(* that a fractional tokensToUse can be passed; voting_power of the store  *)
(* is an INTEGER column, counted in whole units.                           *)
(* An async function is one action up to each await and one action for     *)
(* each continuation; the calls in flight are the model's processes.       *)
(***************************************************************************)
EXTENDS Integers, FiniteSets, Sequences, TLC

\* ------------------------------------------------------------------ bounds

\* Operations started in one behaviour (calls of the contract service and
\* of voteOnMilestone).
MaxOps == 3
\* Largest number of tokens one castVote call is asked to use.
MaxWeight == 2
\* recordFunding calls in one behaviour.
MaxFundingCalls == 2
\* Largest amount one recordFunding call contributes.
MaxFundAmount == 2
\* Tallies given to the approval and percentage computations: YES and NO
\* weights of 0 .. MaxTally each.
MaxTally == 24
\* Clicks on the buttons of GovernancePanel in one run.
MaxPanelOps == 6

\* ------------------------------------------------------- identities, inputs

Milestones == {"m1", "m2"}
Voters == {"u1", "u2"}
Projects == {"p1", "p2"}
\* A missing (null, undefined or empty) argument.
NoId == "none"

VoteTypes == {"yes", "no"}
\* BCH amounts offered to fundMilestoneContract: 0, 0.00002, 0.00007, 0.0001,
\* 0.001.
MintAmounts == {0, 2, 7, 10, 100}
\* BCH amounts offered to releaseMilestoneFunds: 0.0001 and 0.001, the
\* amount of the panel's release button.
ReleaseAmounts == {10, 100}
\* Parts of one token in which the contract service's quantities are counted.
TokenParts == 2
\* n whole tokens.
Tokens(n) == n * TokenParts
\* A quantity is a whole number of tokens.
IsWhole(q) == q % TokenParts = 0
\* tokensToUse offered to castVote; the function takes any number: the whole
\* numbers from -1 to MaxWeight, and half a token.
Weights == {Tokens(w) : w \in (-1) .. MaxWeight} \cup {1}

\* ------------------------------------------------------- program constants

TOKENS_PER_UNIT == 100
\* 0.001 BCH, the divisor in fundMilestoneContract.
MINT_UNIT_BCH == 100
\* 0.0001 BCH, "small tolerance for fees" in releaseMilestoneFunds.
FEE_TOLERANCE == 10
\* APPROVAL_THRESHOLD = 0.5, as the fraction 1 / 2.
APPROVAL_THRESHOLD == <<1, 2>>
\* amount_allocated of a milestone: 0.001 BCH, the tranche the panel releases.
amount_allocated(m) == 100

\* ---------------------------------------------------------------- state

VARIABLES
    \* localStorage of the browser (STORAGE_KEYS)
    tokenBalance,      \* milestara_token_balance
    votes,             \* milestara_votes: milestone -> [yes, no]
    lockedAmount,      \* milestara_locked_amount
    tokenCategory,     \* milestara_token_category
    \* GovernancePanel state
    releaseTxId,       \* milestone -> whether a release txId is shown
    releaseId,         \* the milestone whose release button is disabled
    \* async calls of the contract service in flight: slot -> call record
    inflight,
    \* the ledger: BCH the wallet sent to the project for each milestone
    ledgerReleased,
    nOps,
    \* the store
    voteRows,          \* table votes
    status,            \* milestones.status
    voteCalls,         \* voteOnMilestone calls in flight
    funded_amount,     \* projects.funded_amount
    transactions,      \* table transactions
    fundCalls,         \* recordFunding calls
    \* App.jsx: the milestones of the project held in the component's state
    project,
    \* the last step an operation took: what it was given and what it
    \* returned or threw
    last

localVars == <<tokenBalance, votes, lockedAmount, tokenCategory,
               releaseTxId, releaseId, inflight, ledgerReleased, nOps>>
voteVars == <<voteRows, status, voteCalls>>
fundVars == <<funded_amount, transactions, fundCalls>>
appVars == <<project>>
vars == <<tokenBalance, votes, lockedAmount, tokenCategory,
          releaseTxId, releaseId, inflight, ledgerReleased, nOps,
          voteRows, status, voteCalls,
          funded_amount, transactions, fundCalls, project, last>>

\* Async calls of the contract service in flight at once: two.
Slots == {1, 2}
\* A new call takes the first free slot: which slot holds a call is no part
\* of the program's state.
FirstIdle(calls, s) ==
    /\ calls[s].op = "idle"
    /\ \A t \in DOMAIN calls : t < s => calls[t].op # "idle"
Idle == [op |-> "idle"]
NoVotes == [yes |-> 0, no |-> 0]

\* ------------------------------------------------------------ pure parts

Max(a, b) == IF a > b THEN a ELSE b

\* x / y > t for a fraction t = <<n, d>>, y > 0: the comparison the double
\* division decides exactly for integers below 2^53.
RatioExceeds(x, y, t) == x * t[2] > t[1] * y

\* Ratios yes / total, in lowest terms, whose percentage ends in .5 as a
\* decimal and for which the double (yes / total) * 100 differs from it, so
\* that Math.round returns the integer below the one rounding the half up
\* gives ((23 / 40) * 100 is 57.49999999999999).
PercentRoundsBelow ==
    {<<-11, 40>>, <<-7, 200>>, <<23, 40>>, <<29, 200>>, <<41, 40>>,
     <<51, 40>>, <<57, 200>>, <<113, 200>>, <<201, 200>>, <<203, 200>>,
     <<207, 200>>}

\* total > 0 ? Math.round((yes / total) * 100) : 0
YesPercent(yes, no) ==
    LET total == yes + no
        exact == (200 * yes + total) \div (2 * total)
    IN  IF total > 0
        THEN IF \E q \in PercentRoundsBelow : yes * q[2] = q[1] * total
             THEN exact - 1 ELSE exact
        ELSE 0

\* IsApproved with >= for >: a tie approves.
IsApproved_AtLeastHalf(yes, no) ==
    LET total == yes + no
    IN  total > 0 /\ ~RatioExceeds(no, total, APPROVAL_THRESHOLD)

\* total > 0 && (yes / total) > 0.5
IsApproved(yes, no) ==
    LET total == yes + no
    IN  total > 0 /\ RatioExceeds(yes, total, APPROVAL_THRESHOLD)

\* getMilestoneVotes / isMilestoneApproved
isMilestoneApproved(m) == IsApproved(votes[m].yes, votes[m].no)

\* Amounts a up to 0.001 BCH for which the double (a / 0.001) * 100 falls just
\* below the integer it equals as a decimal, so that Math.floor loses one
\* token (0.00007 / 0.001 * 100 is 6.999999999999999).
RoundsBelow == {7, 13, 14, 26, 28, 29, 39, 45, 52, 53, 56, 57, 58, 65, 77, 78,
                89, 90}

\* Math.floor((amountBch / 0.001) * TOKENS_PER_UNIT)
TokenAmount(amountBch) ==
    LET exact == (amountBch * TOKENS_PER_UNIT) \div MINT_UNIT_BCH
    IN  IF amountBch \in RoundsBelow THEN exact - 1 ELSE exact

\* ---------------------------------------------------------------- Init

Init ==
    /\ tokenBalance = 0
    /\ votes = [m \in Milestones |-> NoVotes]
    /\ lockedAmount = 0
    /\ tokenCategory = NoId
    /\ releaseTxId = [m \in Milestones |-> FALSE]
    /\ releaseId = NoId
    /\ inflight = [s \in Slots |-> Idle]
    /\ ledgerReleased = [m \in Milestones |-> 0]
    /\ nOps = 0
    /\ voteRows = {}
    /\ status = [m \in Milestones |-> "pending"]
    /\ voteCalls = [c \in {1, 2} |-> Idle]
    /\ funded_amount = [p \in Projects |-> 0]
    /\ transactions = {}
    /\ fundCalls = [c \in 1 .. MaxFundingCalls |-> Idle]
    /\ project = [m \in Milestones |-> [votes |-> NoVotes, status |-> "Pending"]]
    /\ last = [op |-> "none"]

\* ------------------------------------------- local contract service

\* fundMilestoneContract up to its await of wallet.send (the token genesis);
\* maxOps bounds the operations of a run.
fundMilestoneContractStartWithin(maxOps, s, amountBch) ==
    /\ nOps < maxOps
    /\ FirstIdle(inflight, s)
    /\ nOps' = nOps + 1
    /\ LET tokenAmount == TokenAmount(amountBch)
       IN  IF tokenAmount < 1
           THEN /\ last' = [op |-> "fundMilestoneContract", res |-> "InvalidAmount",
                            arg |-> [amountBch |-> amountBch]]
                /\ UNCHANGED inflight
           ELSE /\ inflight' = [inflight EXCEPT ![s] =
                        [op |-> "mint", amountBch |-> amountBch,
                         tokenAmount |-> tokenAmount]]
                /\ last' = [op |-> "fundMilestoneContract", res |-> "minting",
                            arg |-> [amountBch |-> amountBch]]
    /\ UNCHANGED <<tokenBalance, votes, lockedAmount, tokenCategory,
                   releaseTxId, releaseId, ledgerReleased>>
    /\ UNCHANGED <<voteVars, fundVars>>
    /\ UNCHANGED appVars

\* fundMilestoneContract among the MaxOps operations of a run.
fundMilestoneContractStart(s, amountBch) ==
    fundMilestoneContractStartWithin(MaxOps, s, amountBch)

\* fundMilestoneContractFinish had the catch block rethrown the error of
\* wallet.send instead of simulating the mint.
fundMilestoneContractFinish_NoSimulation(s, minted) ==
    /\ inflight[s].op = "mint"
    /\ LET c == inflight[s]
           prevLocked == lockedAmount
           prevTokens == tokenBalance
           newTokenBalance == prevTokens + Tokens(c.tokenAmount)
       IN  IF minted
           THEN /\ lockedAmount' = prevLocked + c.amountBch
                /\ tokenCategory' = "genesis"
                /\ tokenBalance' = newTokenBalance
                /\ last' = [op |-> "fundMilestoneContract", res |-> "ok",
                            arg |-> [amountBch |-> c.amountBch],
                            ret |-> [tokenAmount |-> c.tokenAmount,
                                     newTokenBalance |-> newTokenBalance,
                                     minted |-> minted]]
           ELSE /\ last' = [op |-> "fundMilestoneContract", res |-> "SendFailed",
                            arg |-> [amountBch |-> c.amountBch]]
                /\ UNCHANGED <<lockedAmount, tokenCategory, tokenBalance>>
    /\ inflight' = [inflight EXCEPT ![s] = Idle]
    /\ UNCHANGED <<votes, releaseTxId, releaseId, ledgerReleased, nOps>>
    /\ UNCHANGED <<voteVars, fundVars>>
    /\ UNCHANGED appVars

\* fundMilestoneContract after wallet.send: minted, or the catch block's
\* simulated mint; either way the locked amount and the balance are credited.
fundMilestoneContractFinish(s, minted) ==
    /\ inflight[s].op = "mint"
    /\ LET c == inflight[s]
           prevLocked == lockedAmount
           prevTokens == tokenBalance
           newTokenBalance == prevTokens + Tokens(c.tokenAmount)
       IN  /\ lockedAmount' = prevLocked + c.amountBch
           /\ tokenCategory' = IF minted THEN "genesis" ELSE "simulated"
           /\ tokenBalance' = newTokenBalance
           /\ last' = [op |-> "fundMilestoneContract", res |-> "ok",
                       arg |-> [amountBch |-> c.amountBch],
                       ret |-> [tokenAmount |-> c.tokenAmount,
                                newTokenBalance |-> newTokenBalance,
                                minted |-> minted]]
    /\ inflight' = [inflight EXCEPT ![s] = Idle]
    /\ UNCHANGED <<votes, releaseTxId, releaseId, ledgerReleased, nOps>>
    /\ UNCHANGED <<voteVars, fundVars>>
    /\ UNCHANGED appVars

\* castVote(milestoneId, voteType, tokensToUse), as GovernancePanel.handleVote
\* calls it; synchronous. maxOps bounds the operations of a run.
castVoteWithin(maxOps, milestoneId, voteType, tokensToUse) ==
    /\ nOps < maxOps
    /\ nOps' = nOps + 1
    /\ LET currentBalance == tokenBalance
       IN  IF currentBalance < tokensToUse
           THEN /\ last' = [op |-> "castVote", res |-> "NotEnoughTokens",
                            arg |-> [m |-> milestoneId, voteType |-> voteType,
                                     weight |-> tokensToUse]]
                /\ UNCHANGED <<tokenBalance, votes>>
           ELSE LET newBalance == currentBalance - tokensToUse
                    prevVotes == votes[milestoneId]
                    updatedVotes ==
                        [prevVotes EXCEPT ![voteType] = @ + tokensToUse]
                IN  /\ tokenBalance' = newBalance
                    /\ votes' = [votes EXCEPT ![milestoneId] = updatedVotes]
                    /\ last' = [op |-> "castVote", res |-> "ok",
                                arg |-> [m |-> milestoneId, voteType |-> voteType,
                                         weight |-> tokensToUse],
                                ret |-> [yes |-> updatedVotes.yes,
                                         no |-> updatedVotes.no,
                                         tokenBalance |-> newBalance,
                                         isApproved |->
                                             IsApproved(updatedVotes.yes,
                                                        updatedVotes.no),
                                         yesPercent |->
                                             YesPercent(updatedVotes.yes,
                                                        updatedVotes.no)]]
    /\ UNCHANGED <<lockedAmount, tokenCategory, releaseTxId, releaseId,
                   inflight, ledgerReleased>>
    /\ UNCHANGED <<voteVars, fundVars>>
    /\ UNCHANGED appVars

\* castVote that saves the tally and leaves the token balance as it was.
castVote_NoDeduct(milestoneId, voteType, tokensToUse) ==
    /\ nOps < MaxOps
    /\ nOps' = nOps + 1
    /\ LET currentBalance == tokenBalance
       IN  IF currentBalance < tokensToUse
           THEN /\ last' = [op |-> "castVote", res |-> "NotEnoughTokens",
                            arg |-> [m |-> milestoneId, voteType |-> voteType,
                                     weight |-> tokensToUse]]
                /\ UNCHANGED <<tokenBalance, votes>>
           ELSE LET newBalance == currentBalance
                    prevVotes == votes[milestoneId]
                    updatedVotes ==
                        [prevVotes EXCEPT ![voteType] = @ + tokensToUse]
                IN  /\ tokenBalance' = newBalance
                    /\ votes' = [votes EXCEPT ![milestoneId] = updatedVotes]
                    /\ last' = [op |-> "castVote", res |-> "ok",
                                arg |-> [m |-> milestoneId, voteType |-> voteType,
                                         weight |-> tokensToUse],
                                ret |-> [yes |-> updatedVotes.yes,
                                         no |-> updatedVotes.no,
                                         tokenBalance |-> newBalance,
                                         isApproved |->
                                             IsApproved(updatedVotes.yes,
                                                        updatedVotes.no),
                                         yesPercent |->
                                             YesPercent(updatedVotes.yes,
                                                        updatedVotes.no)]]
    /\ UNCHANGED <<lockedAmount, tokenCategory, releaseTxId, releaseId,
                   inflight, ledgerReleased>>
    /\ UNCHANGED <<voteVars, fundVars>>
    /\ UNCHANGED appVars

\* castVote among the MaxOps operations of a run.
castVote(milestoneId, voteType, tokensToUse) ==
    castVoteWithin(MaxOps, milestoneId, voteType, tokensToUse)

\* amountBch > locked + 0.0001 on doubles. Where the two sides are equal as
\* decimals the doubles differ by rounding and the test goes either way
\* (0.00024 > 0.00014 + 0.0001 is true, 0.0001 > 0 + 0.0001 is false).
ExceedsLocked(amountBch, locked, roundsUp) ==
    \/ amountBch > locked + FEE_TOLERANCE
    \/ amountBch = locked + FEE_TOLERANCE /\ locked > 0 /\ roundsUp

\* GovernancePanel.handleRelease(milestoneId, amountBch) and
\* releaseMilestoneFunds up to its await of wallet.send.
releaseMilestoneFundsStartWithin(maxOps, s, milestoneId, amountBch, roundsUp) ==
    /\ nOps < maxOps
    /\ FirstIdle(inflight, s)
    /\ nOps' = nOps + 1
    /\ LET locked == lockedAmount
           arg == [m |-> milestoneId, amountBch |-> amountBch,
                   approved |-> isMilestoneApproved(milestoneId),
                   status |-> status[milestoneId]]
       IN  IF ExceedsLocked(amountBch, locked, roundsUp)
           THEN /\ last' = [op |-> "releaseMilestoneFunds",
                            res |-> "InsufficientLockedFunds",
                            arg |-> arg]
                /\ releaseId' = NoId
                /\ UNCHANGED inflight
           ELSE /\ inflight' = [inflight EXCEPT ![s] =
                        [op |-> "release", m |-> milestoneId,
                         amountBch |-> amountBch, locked |-> locked,
                         arg |-> arg]]
                /\ releaseId' = milestoneId
                /\ last' = [op |-> "releaseMilestoneFunds", res |-> "sending",
                            arg |-> arg]
    /\ UNCHANGED <<tokenBalance, votes, lockedAmount, tokenCategory,
                   releaseTxId, ledgerReleased>>
    /\ UNCHANGED <<voteVars, fundVars>>
    /\ UNCHANGED appVars

\* releaseMilestoneFunds among the MaxOps operations of a run.
releaseMilestoneFundsStart(s, milestoneId, amountBch, roundsUp) ==
    releaseMilestoneFundsStartWithin(MaxOps, s, milestoneId, amountBch,
                                     roundsUp)

\* releaseMilestoneFundsSent without Math.max(0, ...).
releaseMilestoneFundsSent_NoFloor(s) ==
    /\ inflight[s].op = "release"
    /\ LET c == inflight[s]
           remaining == c.locked - c.amountBch
       IN  /\ ledgerReleased' =
                  [ledgerReleased EXCEPT ![c.m] = @ + c.amountBch]
           /\ lockedAmount' = remaining
           /\ releaseTxId' = [releaseTxId EXCEPT ![c.m] = TRUE]
           /\ last' = [op |-> "releaseMilestoneFunds", res |-> "ok",
                       arg |-> c.arg]
    /\ releaseId' = NoId
    /\ inflight' = [inflight EXCEPT ![s] = Idle]
    /\ UNCHANGED <<tokenBalance, votes, tokenCategory, nOps>>
    /\ UNCHANGED <<voteVars, fundVars>>
    /\ UNCHANGED appVars

\* wallet.send succeeded: the ledger moved the amount; releaseMilestoneFunds
\* writes the remaining locked amount and handleRelease keeps the txId.
releaseMilestoneFundsSent(s) ==
    /\ inflight[s].op = "release"
    /\ LET c == inflight[s]
           remaining == Max(0, c.locked - c.amountBch)
       IN  /\ ledgerReleased' =
                  [ledgerReleased EXCEPT ![c.m] = @ + c.amountBch]
           /\ lockedAmount' = remaining
           /\ releaseTxId' = [releaseTxId EXCEPT ![c.m] = TRUE]
           /\ last' = [op |-> "releaseMilestoneFunds", res |-> "ok",
                       arg |-> c.arg]
    /\ releaseId' = NoId
    /\ inflight' = [inflight EXCEPT ![s] = Idle]
    /\ UNCHANGED <<tokenBalance, votes, tokenCategory, nOps>>
    /\ UNCHANGED <<voteVars, fundVars>>
    /\ UNCHANGED appVars

\* releaseMilestoneFundsFailed had the remaining locked amount been saved
\* before the await of wallet.send.
releaseMilestoneFundsFailed_SavedFirst(s) ==
    /\ inflight[s].op = "release"
    /\ LET c == inflight[s]
       IN  /\ lockedAmount' = Max(0, c.locked - c.amountBch)
           /\ last' = [op |-> "releaseMilestoneFunds", res |-> "SendFailed",
                       arg |-> c.arg]
    /\ releaseId' = NoId
    /\ inflight' = [inflight EXCEPT ![s] = Idle]
    /\ UNCHANGED <<tokenBalance, votes, tokenCategory,
                   releaseTxId, ledgerReleased, nOps>>
    /\ UNCHANGED <<voteVars, fundVars>>
    /\ UNCHANGED appVars

\* wallet.send failed: the error leaves releaseMilestoneFunds and
\* handleRelease shows it.
releaseMilestoneFundsFailed(s) ==
    /\ inflight[s].op = "release"
    /\ LET c == inflight[s]
       IN  last' = [op |-> "releaseMilestoneFunds", res |-> "SendFailed",
                    arg |-> c.arg]
    /\ releaseId' = NoId
    /\ inflight' = [inflight EXCEPT ![s] = Idle]
    /\ UNCHANGED <<tokenBalance, votes, lockedAmount, tokenCategory,
                   releaseTxId, ledgerReleased, nOps>>
    /\ UNCHANGED <<voteVars, fundVars>>
    /\ UNCHANGED appVars

\* clearContractState: removes every STORAGE_KEYS entry.
clearContractState ==
    /\ nOps < MaxOps
    /\ nOps' = nOps + 1
    /\ tokenBalance' = 0
    /\ votes' = [m \in Milestones |-> NoVotes]
    /\ lockedAmount' = 0
    /\ tokenCategory' = NoId
    /\ last' = [op |-> "clearContractState", res |-> "ok"]
    /\ UNCHANGED <<releaseTxId, releaseId, inflight, ledgerReleased>>
    /\ UNCHANGED <<voteVars, fundVars>>
    /\ UNCHANGED appVars

NextContract ==
    \/ \E s \in Slots, a \in MintAmounts : fundMilestoneContractStart(s, a)
    \/ \E s \in Slots, minted \in BOOLEAN : fundMilestoneContractFinish(s, minted)
    \/ \E m \in Milestones, t \in VoteTypes, w \in Weights : castVote(m, t, w)
    \/ \E s \in Slots, m \in Milestones, a \in ReleaseAmounts, r \in BOOLEAN :
           releaseMilestoneFundsStart(s, m, a, r)
    \/ \E s \in Slots : releaseMilestoneFundsSent(s)
    \/ \E s \in Slots : releaseMilestoneFundsFailed(s)
    \/ clearContractState

SpecContract == Init /\ [][NextContract]_vars

\* --------------------------------------------- votes and milestone status

\* voteOnMilestone calls in flight at once: two.
VoteCallIds == {1, 2}
\* The user of the browser whose localStorage is modelled; castVoteDB passes
\* user.id as voterId.
LocalUser == "u1"

\* allVotes.filter(v => v.vote === vote).reduce((s, v) => s + v.voting_power, 0)
\* over the rows of one milestone; (milestone_id, voter_id) is unique, so the
\* rows are summed voter by voter.
RECURSIVE SumPower(_, _, _, _)
SumPower(rows, m, vote, voters) ==
    IF voters = {} THEN 0
    ELSE LET v == CHOOSE x \in voters : TRUE
             mine == {r \in rows : r.milestone_id = m /\ r.voter_id = v
                                    /\ r.vote = vote}
             w == IF mine = {} THEN 0
                  ELSE (CHOOSE r \in mine : TRUE).voting_power
         IN  w + SumPower(rows, m, vote, voters \ {v})

Tally(rows, m) ==
    [yes |-> SumPower(rows, m, TRUE, Voters),
     no |-> SumPower(rows, m, FALSE, Voters)]

\* Arguments offered to voteOnMilestone: every well-formed call, and one call
\* for each argument check that rejects (the booleans are "true" and "false").
VoteInputs ==
    [m : Milestones, voter : Voters, vote : {"true", "false"},
     power : {1, 2}]
    \cup {[m |-> NoId, voter |-> LocalUser, vote |-> "true", power |-> 1],
          [m |-> "m1", voter |-> NoId, vote |-> "true", power |-> 1],
          [m |-> "m1", voter |-> LocalUser, vote |-> NoId, power |-> 1],
          [m |-> "m1", voter |-> LocalUser, vote |-> "true", power |-> 0],
          [m |-> "m1", voter |-> LocalUser, vote |-> "false", power |-> -1]}
\* typeof vote === 'boolean'
IsBoolean(vote) == vote \in {"true", "false"}

\* The constraint with nothing to violate: every insert is accepted.
ViolatesUnique_Never(rows, m, v) == FALSE

\* CONSTRAINT votes_unique_per_user_milestone UNIQUE (milestone_id, voter_id)
ViolatesUnique(rows, m, v) ==
    \E r \in rows : r.milestone_id = m /\ r.voter_id = v

\* updateMilestoneStatus(milestoneId, status): the row's new status.
updateMilestoneStatus(milestoneId, newStatus) ==
    [status EXCEPT ![milestoneId] = newStatus]

\* StatusForTally without the else branch that writes 'voting'.
StatusForTally_ApprovedOnly(yes, no) ==
    IF IsApproved(yes, no) THEN "approved" ELSE NoId

\* The status voteOnMilestone writes for a tally, step 3 of the function.
StatusForTally(yes, no) ==
    IF IsApproved(yes, no) THEN "approved"
    ELSE IF yes + no > 0 THEN "voting"
    ELSE NoId

\* voteOnMilestone: the argument checks and step 1, the insert. storeOk is
\* whether the store answers the insert at all.
voteOnMilestoneInsert(c, milestoneId, voterId, vote, votingPower, storeOk) ==
    /\ nOps < MaxOps
    /\ FirstIdle(voteCalls, c)
    /\ nOps' = nOps + 1
    /\ LET arg == [m |-> milestoneId, voter |-> voterId, vote |-> vote,
                   power |-> votingPower]
           fail(res) ==
               /\ last' = [op |-> "voteOnMilestone", res |-> res, arg |-> arg]
               /\ UNCHANGED <<voteRows, voteCalls>>
       IN  IF milestoneId = NoId THEN fail("ValidationError")
           ELSE IF voterId = NoId THEN fail("ValidationError")
           ELSE IF ~IsBoolean(vote) THEN fail("ValidationError")
           ELSE IF votingPower < 1 THEN fail("InvalidWeight")
           ELSE IF ~storeOk THEN fail("StoreError")
           ELSE IF ViolatesUnique(voteRows, milestoneId, voterId)
                THEN fail("DuplicateVote")
           ELSE /\ voteRows' = voteRows \cup
                        {[milestone_id |-> milestoneId, voter_id |-> voterId,
                          vote |-> (vote = "true"),
                          voting_power |-> votingPower]}
                /\ voteCalls' = [voteCalls EXCEPT ![c] =
                                     [op |-> "tally", arg |-> arg]]
                /\ last' = [op |-> "voteOnMilestone", res |-> "inserted",
                            arg |-> arg]
    /\ UNCHANGED status
    /\ UNCHANGED <<tokenBalance, votes, lockedAmount, tokenCategory,
                   releaseTxId, releaseId, inflight, ledgerReleased>>
    /\ UNCHANGED fundVars
    /\ UNCHANGED appVars

\* Step 2: the rows of the milestone are read again and summed.
voteOnMilestoneTally(c, storeOk) ==
    /\ voteCalls[c].op = "tally"
    /\ LET arg == voteCalls[c].arg
           t == Tally(voteRows, arg.m)
       IN  IF ~storeOk
           THEN /\ voteCalls' = [voteCalls EXCEPT ![c] = Idle]
                /\ last' = [op |-> "voteOnMilestone", res |-> "StoreError",
                            arg |-> arg]
           ELSE /\ voteCalls' = [voteCalls EXCEPT ![c] =
                                     [op |-> "status", arg |-> arg,
                                      yesWeight |-> t.yes, noWeight |-> t.no]]
                /\ last' = [op |-> "voteOnMilestone", res |-> "tallied",
                            arg |-> arg]
    /\ UNCHANGED <<voteRows, status>>
    /\ UNCHANGED <<localVars, fundVars>>
    /\ UNCHANGED appVars

\* Step 3: the status is written from the tally that was read, and the
\* function returns.
voteOnMilestoneStatus(c, storeOk) ==
    /\ voteCalls[c].op = "status"
    /\ LET call == voteCalls[c]
           yesWeight == call.yesWeight
           noWeight == call.noWeight
           yesPercent == YesPercent(yesWeight, noWeight)
           milestoneApproved == IsApproved(yesWeight, noWeight)
           written == StatusForTally(yesWeight, noWeight)
       IN  IF written # NoId /\ ~storeOk
           THEN /\ last' = [op |-> "voteOnMilestone", res |-> "StoreError",
                            arg |-> call.arg]
                /\ UNCHANGED status
           ELSE /\ status' = IF written = NoId THEN status
                             ELSE updateMilestoneStatus(call.arg.m, written)
                /\ last' = [op |-> "voteOnMilestone", res |-> "ok",
                            arg |-> call.arg,
                            ret |-> [yes |-> yesWeight, no |-> noWeight,
                                     isApproved |-> milestoneApproved,
                                     yesPercent |-> yesPercent]]
    /\ voteCalls' = [voteCalls EXCEPT ![c] = Idle]
    /\ UNCHANGED voteRows
    /\ UNCHANGED <<localVars, fundVars>>
    /\ UNCHANGED appVars

\* milestones.project_id: both milestones belong to project p1, p2 has none.
project_id(m) == "p1"

\* Tally with a direction's rows left out of the sum.
MilestoneReport_YesOnly(rows, m) ==
    LET yesWeight == SumPower(rows, m, TRUE, Voters)
        noWeight == 0
    IN  [status |-> status[m], voteYes |-> yesWeight, voteNo |-> noWeight,
         voteTotal |-> yesWeight + noWeight,
         isApproved |-> IsApproved(yesWeight, noWeight)]

\* What fetchMilestonesByProject returns for one milestone row joined with its
\* vote rows.
MilestoneReport(rows, m) ==
    LET yesWeight == SumPower(rows, m, TRUE, Voters)
        noWeight == SumPower(rows, m, FALSE, Voters)
    IN  [status |-> status[m], voteYes |-> yesWeight, voteNo |-> noWeight,
         voteTotal |-> yesWeight + noWeight,
         isApproved |-> IsApproved(yesWeight, noWeight)]

\* fetchMilestonesByProject(projectId): one select of the project's
\* milestones joined with their votes; reads only.
fetchMilestonesByProject(projectId, storeOk) ==
    /\ nOps < MaxOps
    /\ nOps' = nOps + 1
    /\ LET arg == [projectId |-> projectId]
       IN  IF projectId = NoId
           THEN last' = [op |-> "fetchMilestonesByProject",
                         res |-> "ValidationError", arg |-> arg]
           ELSE IF ~storeOk
           THEN last' = [op |-> "fetchMilestonesByProject",
                         res |-> "StoreError", arg |-> arg]
           ELSE last' = [op |-> "fetchMilestonesByProject", res |-> "ok",
                         arg |-> arg,
                         ret |-> [m \in {x \in Milestones :
                                             project_id(x) = projectId}
                                     |-> MilestoneReport(voteRows, m)]]
    /\ UNCHANGED <<tokenBalance, votes, lockedAmount, tokenCategory,
                   releaseTxId, releaseId, inflight, ledgerReleased>>
    /\ UNCHANGED <<voteVars, fundVars>>
    /\ UNCHANGED appVars

\* hasUserVoted counting the milestone's rows of every voter.
hasUserVoted_Result_AnyVoter(milestoneId, voterId, storeOk) ==
    IF milestoneId = NoId \/ voterId = NoId THEN FALSE
    ELSE IF ~storeOk THEN FALSE
    ELSE Cardinality({r \in voteRows : r.milestone_id = milestoneId}) > 0

\* The value of hasUserVoted(milestoneId, voterId): false for a missing
\* argument and for a store error, else count > 0.
hasUserVoted_Result(milestoneId, voterId, storeOk) ==
    IF milestoneId = NoId \/ voterId = NoId THEN FALSE
    ELSE IF ~storeOk THEN FALSE
    ELSE Cardinality({r \in voteRows : /\ r.milestone_id = milestoneId
                                       /\ r.voter_id = voterId}) > 0

\* hasUserVoted(milestoneId, voterId), as checkHasVoted calls it with user.id;
\* a count query, reads only, never throws.
hasUserVoted(milestoneId, voterId, storeOk) ==
    /\ nOps < MaxOps
    /\ nOps' = nOps + 1
    /\ last' = [op |-> "hasUserVoted", res |-> "ok",
                arg |-> [m |-> milestoneId, voter |-> voterId,
                         storeOk |-> storeOk],
                ret |-> hasUserVoted_Result(milestoneId, voterId, storeOk)]
    /\ UNCHANGED <<tokenBalance, votes, lockedAmount, tokenCategory,
                   releaseTxId, releaseId, inflight, ledgerReleased>>
    /\ UNCHANGED <<voteVars, fundVars>>
    /\ UNCHANGED appVars

NextVotes ==
    \/ \E c \in VoteCallIds, i \in VoteInputs, storeOk \in BOOLEAN :
           voteOnMilestoneInsert(c, i.m, i.voter, i.vote, i.power, storeOk)
    \/ \E c \in VoteCallIds, storeOk \in BOOLEAN : voteOnMilestoneTally(c, storeOk)
    \/ \E c \in VoteCallIds, storeOk \in BOOLEAN : voteOnMilestoneStatus(c, storeOk)

SpecVotes == Init /\ [][NextVotes]_vars

\* The votes of one milestone together with the functions that read them.
NextTally ==
    \/ \E c \in VoteCallIds, i \in VoteInputs, storeOk \in BOOLEAN :
           /\ i.m \in {"m1", NoId}
           /\ voteOnMilestoneInsert(c, i.m, i.voter, i.vote, i.power, storeOk)
    \/ \E c \in VoteCallIds, storeOk \in BOOLEAN : voteOnMilestoneTally(c, storeOk)
    \/ \E c \in VoteCallIds, storeOk \in BOOLEAN : voteOnMilestoneStatus(c, storeOk)
    \/ \E p \in Projects \cup {NoId}, storeOk \in BOOLEAN :
           fetchMilestonesByProject(p, storeOk)
    \/ \E m \in {"m1", NoId}, v \in Voters \cup {NoId}, storeOk \in BOOLEAN :
           hasUserVoted(m, v, storeOk)

SpecTally == Init /\ [][NextTally]_vars

\* ------------------------------------------------------- funding ledger

FundCallIds == 1 .. MaxFundingCalls

\* Arguments offered to recordFunding: every well-formed contribution, and
\* one call for each argument check of insertTransaction and
\* updateFundedAmount that rejects.
FundInputs ==
    [projectId : Projects, txHash : {"tx"}, amount : 1 .. MaxFundAmount]
    \cup {[projectId |-> NoId, txHash |-> "tx", amount |-> 1],
          [projectId |-> "p1", txHash |-> NoId, amount |-> 1],
          [projectId |-> "p1", txHash |-> "tx", amount |-> 0],
          [projectId |-> "p1", txHash |-> "tx", amount |-> -1]}

\* insertTransaction's argument checks without the one on the amount.
insertTransactionValid_AnyAmount(projectId, txHash, amount) ==
    /\ projectId # NoId
    /\ txHash # NoId

\* The argument checks of insertTransaction({projectId, txHash, amount, type})
\* with type 'funding': whether the insert is sent to the store.
insertTransactionValid(projectId, txHash, amount) ==
    /\ projectId # NoId
    /\ txHash # NoId
    /\ ~(amount <= 0)

\* The argument checks of updateFundedAmount(projectId, additionalAmount).
updateFundedAmountValid(projectId, additionalAmount) ==
    /\ projectId # NoId
    /\ ~(additionalAmount <= 0)

\* increment_funded_amount writing the amount over the total.
increment_funded_amount_Overwrite(funded, amount) == amount

\* increment_funded_amount: SET funded_amount = funded_amount + amount, one
\* UPDATE statement of the store.
increment_funded_amount(funded, amount) == funded + amount

RECURSIVE SumAmounts(_)
SumAmounts(rows) ==
    IF rows = {} THEN 0
    ELSE LET r == CHOOSE x \in rows : TRUE
         IN  r.amount + SumAmounts(rows \ {r})

\* getProjectFundingTotal without the filter on project_id.
getProjectFundingTotal_AllProjects(projectId) ==
    SumAmounts({t \in transactions : t.type = "funding"})

\* getProjectFundingTotal(projectId): the sum of the amounts of the rows of
\* the project with type 'funding' (toFixed(8) keeps every amount here).
getProjectFundingTotal(projectId) ==
    SumAmounts({t \in transactions :
                   t.project_id = projectId /\ t.type = "funding"})

\* recordFunding: Promise.all starts insertTransaction and updateFundedAmount
\* together; each runs its argument checks and sends its request.
recordFunding(c, projectId, txHash, amount) ==
    /\ FirstIdle(fundCalls, c)
    /\ fundCalls' = [fundCalls EXCEPT ![c] =
           [op |-> "recordFunding",
            arg |-> [projectId |-> projectId, txHash |-> txHash,
                     amount |-> amount],
            ins |-> IF insertTransactionValid(projectId, txHash, amount)
                    THEN "pending" ELSE "err",
            inc |-> IF updateFundedAmountValid(projectId, amount)
                    THEN "pending" ELSE "err"]]
    /\ last' = [op |-> "recordFunding", res |-> "started", c |-> c]
    /\ UNCHANGED <<funded_amount, transactions>>
    /\ UNCHANGED <<localVars, voteVars>>
    /\ UNCHANGED appVars

\* The store answers the insert of insertTransaction: the row, or an error.
insertTransactionDone(c, storeOk) ==
    /\ fundCalls[c].op = "recordFunding"
    /\ fundCalls[c].ins = "pending"
    /\ LET arg == fundCalls[c].arg
       IN  IF storeOk
           THEN /\ transactions' = transactions \cup
                        {[id |-> c, project_id |-> arg.projectId,
                          tx_hash |-> arg.txHash, amount |-> arg.amount,
                          type |-> "funding"]}
                /\ fundCalls' = [fundCalls EXCEPT ![c].ins = "ok"]
           ELSE /\ fundCalls' = [fundCalls EXCEPT ![c].ins = "err"]
                /\ UNCHANGED transactions
    /\ last' = [op |-> "insertTransaction",
                res |-> IF storeOk THEN "ok" ELSE "StoreError", c |-> c]
    /\ UNCHANGED funded_amount
    /\ UNCHANGED <<localVars, voteVars>>
    /\ UNCHANGED appVars

\* The store answers the rpc of updateFundedAmount: the increment ran, or an
\* error.
updateFundedAmountDone(c, storeOk) ==
    /\ fundCalls[c].op = "recordFunding"
    /\ fundCalls[c].inc = "pending"
    /\ LET arg == fundCalls[c].arg
       IN  IF storeOk
           THEN /\ funded_amount' = [funded_amount EXCEPT ![arg.projectId] =
                        increment_funded_amount(@, arg.amount)]
                /\ fundCalls' = [fundCalls EXCEPT ![c].inc = "ok"]
           ELSE /\ fundCalls' = [fundCalls EXCEPT ![c].inc = "err"]
                /\ UNCHANGED funded_amount
    /\ last' = [op |-> "updateFundedAmount",
                res |-> IF storeOk THEN "ok" ELSE "StoreError", c |-> c]
    /\ UNCHANGED transactions
    /\ UNCHANGED <<localVars, voteVars>>
    /\ UNCHANGED appVars

NextFunding ==
    \/ \E c \in FundCallIds, i \in FundInputs :
           recordFunding(c, i.projectId, i.txHash, i.amount)
    \/ \E c \in FundCallIds, storeOk \in BOOLEAN : insertTransactionDone(c, storeOk)
    \/ \E c \in FundCallIds, storeOk \in BOOLEAN : updateFundedAmountDone(c, storeOk)

SpecFunding == Init /\ [][NextFunding]_vars

\* One milestone governed through both the contract service and the store.
NextMilestone ==
    \/ \E s \in Slots, a \in MintAmounts : fundMilestoneContractStart(s, a)
    \/ \E s \in Slots, minted \in BOOLEAN : fundMilestoneContractFinish(s, minted)
    \/ \E t \in VoteTypes, w \in Weights : castVote("m1", t, w)
    \/ \E s \in Slots, a \in ReleaseAmounts, r \in BOOLEAN :
           releaseMilestoneFundsStart(s, "m1", a, r)
    \/ \E s \in Slots : releaseMilestoneFundsSent(s)
    \/ \E s \in Slots : releaseMilestoneFundsFailed(s)
    \/ \E c \in VoteCallIds, i \in VoteInputs, storeOk \in BOOLEAN :
           /\ i.m \in {"m1", NoId}
           /\ voteOnMilestoneInsert(c, i.m, i.voter, i.vote, i.power, storeOk)
    \/ \E c \in VoteCallIds, storeOk \in BOOLEAN : voteOnMilestoneTally(c, storeOk)
    \/ \E c \in VoteCallIds, storeOk \in BOOLEAN : voteOnMilestoneStatus(c, storeOk)

SpecMilestone == Init /\ [][NextMilestone]_vars

\* The whole program.
\* ------------------------------------------- App.jsx, the tally functions

\* The rule of handleVote with >= for >: a tie approves.
AppStatus_AtLeast(updatedVotes) ==
    IF updatedVotes.yes >= updatedVotes.no THEN "Approved" ELSE "Pending"

\* updatedVotes.yes > updatedVotes.no ? 'Approved' : 'Pending'
AppStatus(updatedVotes) ==
    IF updatedVotes.yes > updatedVotes.no THEN "Approved" ELSE "Pending"

\* App.handleVote(milestoneId, voteType): one more vote of the type, and the
\* milestone's status from the new counts.
App_handleVote(milestoneId, voteType) ==
    /\ nOps < MaxOps
    /\ nOps' = nOps + 1
    /\ LET m == project[milestoneId]
           updatedVotes == [m.votes EXCEPT ![voteType] = @ + 1]
           newStatus == AppStatus(updatedVotes)
       IN  /\ project' = [project EXCEPT ![milestoneId] =
                              [votes |-> updatedVotes, status |-> newStatus]]
           /\ last' = [op |-> "handleVote", res |-> "ok",
                       arg |-> [m |-> milestoneId, voteType |-> voteType],
                       ret |-> [yes |-> updatedVotes.yes,
                                no |-> updatedVotes.no,
                                status |-> newStatus]]
    /\ UNCHANGED <<tokenBalance, votes, lockedAmount, tokenCategory,
                   releaseTxId, releaseId, inflight, ledgerReleased>>
    /\ UNCHANGED <<voteVars, fundVars>>

\* The tally of y YES and n NO on milestone m1, about to be reached in each
\* part of the program: the local user holds y tokens and n tokens are
\* recorded NO; in the store u2 has voted NO with power n and u1's YES vote
\* of power y is inserted, its call about to read the tally; in App the
\* counts are one click short of (y, n), with the status the clicks so far
\* left.
InitTallyFn ==
    \E y \in 0 .. MaxTally, n \in 0 .. MaxTally :
        /\ tokenBalance = Tokens(y)
        /\ votes = [m \in Milestones |->
                       IF m = "m1" THEN [yes |-> 0, no |-> Tokens(n)]
                       ELSE NoVotes]
        /\ lockedAmount = y + n
        /\ tokenCategory = IF y + n > 0 THEN "simulated" ELSE NoId
        /\ releaseTxId = [m \in Milestones |-> FALSE]
        /\ releaseId = NoId
        /\ inflight = [s \in Slots |-> Idle]
        /\ ledgerReleased = [m \in Milestones |-> 0]
        /\ nOps = 0
        /\ voteRows =
               {[milestone_id |-> "m1", voter_id |-> "u2", vote |-> FALSE,
                 voting_power |-> p] : p \in {n} \ {0}}
               \cup
               {[milestone_id |-> "m1", voter_id |-> "u1", vote |-> TRUE,
                 voting_power |-> p] : p \in {y} \ {0}}
        /\ status = [m \in Milestones |->
                        IF m = "m1" /\ n > 0 THEN "voting" ELSE "pending"]
        /\ voteCalls = [c \in VoteCallIds |->
                           IF c = 1 /\ y > 0
                           THEN [op |-> "tally",
                                 arg |-> [m |-> "m1", voter |-> "u1",
                                          vote |-> "true", power |-> y]]
                           ELSE Idle]
        /\ funded_amount = [p \in Projects |-> 0]
        /\ transactions = {}
        /\ fundCalls = [c \in 1 .. MaxFundingCalls |-> Idle]
        /\ project = [m \in Milestones |->
                         IF m = "m1"
                         THEN LET v == IF y > 0
                                       THEN [yes |-> y - 1, no |-> n]
                                       ELSE [yes |-> 0, no |-> Max(n - 1, 0)]
                              IN  [votes |-> v,
                                   status |-> IF v.yes > v.no THEN "Approved"
                                              ELSE "Pending"]
                         ELSE [votes |-> NoVotes, status |-> "Pending"]]
        /\ last = [op |-> "none"]

\* Each computation applied to the tally: the local user spends the whole
\* balance on YES, u1's voteOnMilestone call completes, the milestones are
\* fetched, and App's buttons are clicked.
NextTallyFn ==
    \/ tokenBalance > 0 /\ castVote("m1", "yes", tokenBalance)
    \/ \E c \in VoteCallIds : voteOnMilestoneTally(c, TRUE)
    \/ \E c \in VoteCallIds : voteOnMilestoneStatus(c, TRUE)
    \/ fetchMilestonesByProject("p1", TRUE)
    \/ \E t \in VoteTypes : App_handleVote("m1", t)

SpecTallyFn == InitTallyFn /\ [][NextTallyFn]_vars

\* ------------------------------------------- GovernancePanel, as rendered

\* The amounts typed into the mint field: the default 0.001, and 0.
PanelMintAmounts == {0, 100}
\* The token counts of the vote selector.
VoteTokenOptions == {1, 5, 10, 25}
\* The amount of the release button.
PanelReleaseAmount == 100

\* GovernancePanel.handleMint, the mint button enabled (no mint in progress).
GovernancePanel_handleMint(s, mintAmt) ==
    /\ \A t \in Slots : inflight[t].op # "mint"
    /\ IF mintAmt <= 0
       THEN /\ nOps < MaxPanelOps
            /\ nOps' = nOps + 1
            /\ last' = [op |-> "handleMint", res |-> "InvalidAmount",
                        arg |-> [amountBch |-> mintAmt]]
            /\ UNCHANGED <<tokenBalance, votes, lockedAmount, tokenCategory,
                           releaseTxId, releaseId, inflight, ledgerReleased>>
            /\ UNCHANGED <<voteVars, fundVars>>
            /\ UNCHANGED appVars
       ELSE fundMilestoneContractStartWithin(MaxPanelOps, s, mintAmt)

\* GovernancePanel.handleVote from a vote button: the buttons are rendered
\* while the milestone is not approved and enabled while the balance covers
\* the selected token count.
GovernancePanel_handleVote(milestoneId, voteType, voteTokens) ==
    /\ ~isMilestoneApproved(milestoneId)
    /\ ~(tokenBalance < Tokens(voteTokens))
    /\ castVoteWithin(MaxPanelOps, milestoneId, voteType, Tokens(voteTokens))

\* GovernancePanel.handleRelease from the release button: rendered while the
\* milestone is approved and has no release txId, enabled while releaseId is
\* not the milestone.
GovernancePanel_handleRelease(s, milestoneId, roundsUp) ==
    /\ isMilestoneApproved(milestoneId)
    /\ ~releaseTxId[milestoneId]
    /\ releaseId # milestoneId
    /\ releaseMilestoneFundsStartWithin(MaxPanelOps, s, milestoneId,
                                        PanelReleaseAmount, roundsUp)

NextPanel ==
    \/ \E s \in Slots, a \in PanelMintAmounts : GovernancePanel_handleMint(s, a)
    \/ \E s \in Slots, minted \in BOOLEAN : fundMilestoneContractFinish(s, minted)
    \/ \E m \in Milestones, t \in VoteTypes, n \in VoteTokenOptions :
           GovernancePanel_handleVote(m, t, n)
    \/ \E s \in Slots, m \in Milestones, r \in BOOLEAN :
           GovernancePanel_handleRelease(s, m, r)
    \/ \E s \in Slots : releaseMilestoneFundsSent(s)
    \/ \E s \in Slots : releaseMilestoneFundsFailed(s)

SpecPanel == Init /\ [][NextPanel]_vars

Next == NextContract \/ NextVotes \/ NextFunding

Spec == Init /\ [][Next]_vars

\* ================================================================ claims

\* ---------------------------------------------------------------- C1
\* C1: for every (milestone, voter) pair at most one vote is recorded; a
\* second cast by the same voter on the same milestone, with any direction
\* and weight, fails with the duplicate-vote error, records nothing and leaves
\* the voter's token balance unchanged. Stated for both entry points; any
\* failure of castVote is taken for the duplicate-vote error. The voter of
\* castVote is the user of the browser, who has voted on a milestone once its
\* local tally holds weight.
C1_OneVotePerVoter ==
    [][ /\ \A r1, r2 \in voteRows' :
               (r1.milestone_id = r2.milestone_id /\ r1.voter_id = r2.voter_id)
                   => r1 = r2
        /\ ( /\ last'.op = "voteOnMilestone"
             /\ last'.res \in {"inserted", "DuplicateVote"}
             /\ ViolatesUnique(voteRows, last'.arg.m, last'.arg.voter) )
           => ( /\ last'.res = "DuplicateVote"
                /\ voteRows' = voteRows
                /\ tokenBalance' = tokenBalance )
        /\ ( /\ last'.op = "castVote"
             /\ last'.arg.weight >= Tokens(1)
             /\ votes[last'.arg.m].yes >= 0
             /\ votes[last'.arg.m].no >= 0
             /\ votes[last'.arg.m].yes + votes[last'.arg.m].no > 0 )
           => ( /\ last'.res # "ok"
                /\ votes' = votes
                /\ tokenBalance' = tokenBalance )
      ]_vars

\* ---------------------------------------------------------------- C2
\* C2: approval is a latch: once a milestone's status is 'approved', no
\* further vote cast sets it back to 'voting'.
C2_ApprovalLatch ==
    [][ \A m \in Milestones :
            status[m] = "approved" => status'[m] # "voting" ]_vars

\* ---------------------------------------------------------------- C3
RecordFundingInProgress(c) ==
    /\ fundCalls[c].op = "recordFunding"
    /\ (fundCalls[c].ins = "pending" \/ fundCalls[c].inc = "pending")

\* C3: whenever no recordFunding call is in progress, every project's
\* funded_amount equals the sum of the amounts of its recorded transactions of
\* type 'funding', also after calls whose insert or increment failed.
C3_FundedEqualsLedger ==
    (\A c \in FundCallIds : ~RecordFundingInProgress(c))
        => \A p \in Projects : funded_amount[p] = getProjectFundingTotal(p)

\* ---------------------------------------------------------------- C4
\* The amounts of the calls for project p whose increment has run.
RECURSIVE IncrementedSum(_, _)
IncrementedSum(p, calls) ==
    IF calls = {} THEN 0
    ELSE LET c == CHOOSE x \in calls : TRUE
             a == IF /\ fundCalls[c].op = "recordFunding"
                     /\ fundCalls[c].inc = "ok"
                     /\ fundCalls[c].arg.projectId = p
                  THEN fundCalls[c].arg.amount ELSE 0
         IN  a + IncrementedSum(p, calls \ {c})

\* C4: under every interleaving of concurrent contributions no increment is
\* lost: funded_amount has grown by exactly the sum of the amounts whose
\* updateFundedAmount call has completed; at every moment, and so once all
\* calls have completed.
C4_NoLostIncrement ==
    \A p \in Projects : funded_amount[p] = IncrementedSum(p, FundCallIds)

\* Two contributions of the same amount to one project, in flight together:
\* call 1 sent its rpc first and the store ran it last. Both have completed
\* and the total is twice the amount.
C4_Witness ==
    /\ fundCalls[1].op = "recordFunding" /\ fundCalls[2].op = "recordFunding"
    /\ fundCalls[1].inc = "ok" /\ fundCalls[2].inc = "ok"
    /\ fundCalls[1].arg.projectId = fundCalls[2].arg.projectId
    /\ fundCalls[1].arg.amount = fundCalls[2].arg.amount
    /\ last.op = "updateFundedAmount" /\ last.c = 1 /\ last.res = "ok"
    /\ funded_amount[fundCalls[1].arg.projectId] = 2 * fundCalls[1].arg.amount

\* ---------------------------------------------------------------- C5
\* C5: a vote cast whose weight exceeds the voter's token balance is rejected
\* with the insufficient-balance error before any mutation: the balance, the
\* recorded votes and tallies and the milestone status are unchanged. Stated
\* for both entry points; any rejection is taken for the insufficient-balance
\* error. The balance is that of the user of the browser.
C5_InsufficientBalanceRejected ==
    [][ /\ ( /\ last'.op = "castVote"
             /\ last'.arg.weight > tokenBalance )
           => ( /\ last'.res # "ok"
                /\ UNCHANGED <<tokenBalance, votes, voteRows, status>> )
        /\ ( /\ last'.op = "voteOnMilestone"
             /\ last'.res \in {"inserted", "DuplicateVote", "InsufficientBalance"}
             /\ last'.arg.voter = LocalUser
             /\ Tokens(last'.arg.power) > tokenBalance )
           => ( /\ last'.res # "inserted"
                /\ UNCHANGED <<tokenBalance, votes, voteRows, status>> )
      ]_vars

\* ---------------------------------------------------------------- C6
\* C6: a release action on a milestone that is not approved (status pending
\* or voting, tally not a strict YES majority) fails with the not-approved
\* error and performs no ledger send. Any failure before the send is taken
\* for the not-approved error.
C6_ReleaseRequiresApproval ==
    ( /\ last.op = "releaseMilestoneFunds"
      /\ ~last.arg.approved
      /\ last.arg.status \in {"pending", "voting"} )
        => last.res \notin {"sending", "ok", "SendFailed"}

\* ---------------------------------------------------------------- C7
\* C7: after any sequence of release actions the total amount released for a
\* milestone never exceeds the milestone's allocated amount.
C7_ReleasedWithinAllocation ==
    \A m \in Milestones : ledgerReleased[m] <= amount_allocated(m)

\* ---------------------------------------------------------------- C8
\* A release call ends on this step.
ReleaseEnds ==
    \E s \in Slots : inflight[s].op = "release" /\ inflight'[s].op = "idle"

\* C8: if the ledger send of a release fails, the failure reaches the caller
\* and no partial state is visible: the locked balance is unchanged, no
\* release transaction is recorded and the milestone status is unchanged;
\* nor was anything written before the send.
C8_FailedSendNoPartialState ==
    [][ /\ (ReleaseEnds /\ ledgerReleased' = ledgerReleased)
           => ( /\ last'.op = "releaseMilestoneFunds"
                /\ last'.res = "SendFailed" )
        /\ ( /\ last'.op = "releaseMilestoneFunds"
             /\ last'.res \in {"sending", "SendFailed"} )
           => UNCHANGED <<lockedAmount, transactions, status, ledgerReleased,
                          releaseTxId, tokenBalance, votes>>
      ]_vars

\* A send has failed for a release of an amount that was locked.
C8_Witness ==
    /\ last.op = "releaseMilestoneFunds"
    /\ last.res = "SendFailed"
    /\ lockedAmount >= last.arg.amountBch
    /\ releaseId = NoId
    /\ \A s \in Slots : inflight[s].op = "idle"

\* ---------------------------------------------------------------- C9
ReleaseRows(rows) == {t \in rows : t.type = "release"}

\* C9: every release action whose ledger send succeeds appends exactly one
\* transaction of type 'release' and moves the milestone's status from
\* 'approved' to 'released'.
C9_ReleaseRecorded ==
    [][ ( /\ last'.op = "releaseMilestoneFunds"
          /\ last'.res = "ok"
          /\ status[last'.arg.m] = "approved" )
        => ( /\ status'[last'.arg.m] = "released"
             /\ Cardinality(ReleaseRows(transactions'))
                    = Cardinality(ReleaseRows(transactions)) + 1 )
      ]_vars

\* ---------------------------------------------------------------- C10
\* C10: the approval decision a vote cast returns is true exactly when
\* total = yesWeight + noWeight > 0 and 2 * yesWeight > total; a tie and an
\* empty tally are never approved. For castVote and for voteOnMilestone, on
\* the tally each returns.
C10_ApprovalIsStrictMajority ==
    ( /\ last.op \in {"castVote", "voteOnMilestone"}
      /\ last.res = "ok" )
        => LET yes == last.ret.yes
               no == last.ret.no
           IN  /\ last.ret.isApproved
                      <=> (yes + no > 0 /\ 2 * yes > yes + no)
               /\ (yes = no => ~last.ret.isApproved)
               /\ last.op = "castVote"
                      => ( /\ votes[last.arg.m].yes = yes
                           /\ votes[last.arg.m].no = no )

\* castVote has returned a tie of positive weight, not approved.
C10_Witness ==
    /\ last.op = "castVote"
    /\ last.res = "ok"
    /\ last.ret.yes = last.ret.no
    /\ last.ret.yes > 0
    /\ ~last.ret.isApproved

\* ---------------------------------------------------------------- C11
\* The sum of voting_power over a set of vote rows.
RECURSIVE PowerOf(_)
PowerOf(rows) ==
    IF rows = {} THEN 0
    ELSE LET r == CHOOSE x \in rows : TRUE
         IN  r.voting_power + PowerOf(rows \ {r})

RowsOf(m) == {r \in voteRows : r.milestone_id = m}

\* C11: the tally reported for a milestone has yesWeight the sum of
\* voting_power over the YES votes recorded for it, noWeight the sum over the
\* NO votes, and so yesWeight + noWeight the sum over all its votes: in what
\* fetchMilestonesByProject returns, and in voteOnMilestone, whose result is
\* the tally of the rows it read again after its insert.
C11_TallyIsSumOfVotes ==
    [][ /\ ( /\ last'.op = "fetchMilestonesByProject"
             /\ last'.res = "ok" )
           => \A m \in DOMAIN last'.ret :
                  /\ last'.ret[m].voteYes = PowerOf({r \in RowsOf(m) : r.vote})
                  /\ last'.ret[m].voteNo = PowerOf({r \in RowsOf(m) : ~r.vote})
                  /\ last'.ret[m].voteTotal = PowerOf(RowsOf(m))
                  /\ voteRows' = voteRows
        /\ \A c \in VoteCallIds :
               /\ (voteCalls[c].op = "tally" /\ voteCalls'[c].op = "status")
                  => LET m == voteCalls[c].arg.m
                     IN  /\ voteCalls'[c].yesWeight
                                = PowerOf({r \in RowsOf(m) : r.vote})
                         /\ voteCalls'[c].noWeight
                                = PowerOf({r \in RowsOf(m) : ~r.vote})
                         /\ voteCalls'[c].yesWeight + voteCalls'[c].noWeight
                                = PowerOf(RowsOf(m))
               /\ ( /\ voteCalls[c].op = "status" /\ voteCalls'[c].op = "idle"
                    /\ last'.res = "ok" )
                  => /\ last'.ret.yes = voteCalls[c].yesWeight
                     /\ last'.ret.no = voteCalls[c].noWeight
      ]_vars

\* fetchMilestonesByProject has reported a milestone with a YES vote and a NO
\* vote of different weights.
C11_Witness ==
    /\ last.op = "fetchMilestonesByProject"
    /\ last.res = "ok"
    /\ "m1" \in DOMAIN last.ret
    /\ last.ret["m1"].voteYes > 0
    /\ last.ret["m1"].voteNo > 0
    /\ last.ret["m1"].voteYes # last.ret["m1"].voteNo
    /\ Cardinality(RowsOf("m1")) = 2

\* ---------------------------------------------------------------- C19
\* C19: hasUserVoted never mutates any state and never fails: it returns
\* false when milestoneId or voterId is missing and when the store query
\* errors, and otherwise true exactly when a vote for (milestoneId, voterId)
\* is recorded.
C19_HasUserVotedReadsOnly ==
    [][ last'.op = "hasUserVoted"
        => /\ UNCHANGED <<voteRows, status, voteCalls, fundVars>>
           /\ UNCHANGED <<tokenBalance, votes, lockedAmount, tokenCategory,
                          releaseTxId, releaseId, inflight, ledgerReleased>>
           /\ last'.res = "ok"
           /\ last'.ret \in BOOLEAN
           /\ LET a == last'.arg
              IN  IF a.m = NoId \/ a.voter = NoId \/ ~a.storeOk
                  THEN last'.ret = FALSE
                  ELSE last'.ret
                           <=> (\E r \in voteRows : /\ r.milestone_id = a.m
                                                    /\ r.voter_id = a.voter)
      ]_vars

\* hasUserVoted has answered true for one voter of a milestone.
C19_Witness ==
    /\ last.op = "hasUserVoted"
    /\ last.ret = TRUE
    /\ Cardinality(RowsOf(last.arg.m)) = 1

\* ---------------------------------------------------------------- C12
\* C12: in every state reached by mint (fundMilestoneContract) and vote-cast
\* (castVote) operations with any arguments, the governance token balance is
\* an integer >= 0.
C12_BalanceIsNaturalNumber ==
    IsWhole(tokenBalance) /\ tokenBalance >= 0

\* ---------------------------------------------------------------- C13
\* C13: every successful vote cast of weight w decreases the voter's token
\* balance by exactly w and increases the tally of the chosen direction by
\* exactly w, the other direction unchanged; for castVote and for
\* voteOnMilestone, whose voter is the user of the browser holding the
\* balance.
C13_SpendIsExact ==
    [][ /\ ( /\ last'.op = "castVote"
             /\ last'.res = "ok" )
           => LET a == last'.arg
                  other == IF a.voteType = "yes" THEN "no" ELSE "yes"
              IN  /\ tokenBalance' = tokenBalance - a.weight
                  /\ votes'[a.m][a.voteType] = votes[a.m][a.voteType] + a.weight
                  /\ votes'[a.m][other] = votes[a.m][other]
        /\ ( /\ last'.op = "voteOnMilestone"
             /\ last'.res = "inserted"
             /\ last'.arg.voter = LocalUser
             /\ Tokens(last'.arg.power) <= tokenBalance )
           => LET a == last'.arg
                  dir == (a.vote = "true")
              IN  /\ tokenBalance' = tokenBalance - Tokens(a.power)
                  /\ PowerOf({r \in voteRows' : /\ r.milestone_id = a.m
                                                /\ r.vote = dir})
                        = PowerOf({r \in voteRows : /\ r.milestone_id = a.m
                                                    /\ r.vote = dir}) + a.power
                  /\ PowerOf({r \in voteRows' : /\ r.milestone_id = a.m
                                                /\ r.vote # dir})
                        = PowerOf({r \in voteRows : /\ r.milestone_id = a.m
                                                    /\ r.vote # dir})
      ]_vars

\* ---------------------------------------------------------------- C14
\* floor(a / 0.001) * 100
MintFormula(amountBch) == (amountBch \div MINT_UNIT_BCH) * TOKENS_PER_UNIT

\* C14: for a contributed amount a that is a multiple of 0.0001, a successful
\* mint credits exactly floor(a / 0.001) * 100 governance units, and the mint
\* fails with the invalid-amount error when that amount is < 1.
C14_MintCreditsFloorFormula ==
    ( /\ last.op = "fundMilestoneContract"
      /\ last.arg.amountBch % 10 = 0 )
        => IF MintFormula(last.arg.amountBch) < 1
           THEN last.res = "InvalidAmount"
           ELSE last.res = "ok"
                    => last.ret.tokenAmount = MintFormula(last.arg.amountBch)

\* ---------------------------------------------------------------- C15
\* Call c of voteOnMilestone is past its insert and has not returned.
VoteInFlight(c) == voteCalls[c].op \in {"tally", "status"}

\* C15: when two vote casts for the same (milestone, voter) pair run
\* concurrently, exactly one of them records a vote and the other fails with
\* the duplicate-vote error (if the store answers its insert at all); the
\* tally counts the voter's weight once.
C15_ConcurrentDuplicateRejected ==
    [][ \A c \in VoteCallIds :
            ( /\ VoteInFlight(c)
              /\ last'.op = "voteOnMilestone"
              /\ last'.res \in {"inserted", "DuplicateVote"}
              /\ last'.arg.m = voteCalls[c].arg.m
              /\ last'.arg.voter = voteCalls[c].arg.voter )
            => LET a == voteCalls[c].arg
                   mine == {r \in voteRows' : /\ r.milestone_id = a.m
                                              /\ r.voter_id = a.voter}
               IN  /\ last'.res = "DuplicateVote"
                   /\ voteRows' = voteRows
                   /\ Cardinality(mine) = 1
                   /\ PowerOf(mine) = a.power
                   /\ \A r \in mine : r.vote = (a.vote = "true")
      ]_vars

\* While one call of a voter is in flight, a second call of the same voter on
\* the same milestone, with the other direction and another weight, has
\* failed as a duplicate.
C15_Witness ==
    \E c \in VoteCallIds :
        /\ VoteInFlight(c)
        /\ last.op = "voteOnMilestone"
        /\ last.res = "DuplicateVote"
        /\ last.arg.m = voteCalls[c].arg.m
        /\ last.arg.voter = voteCalls[c].arg.voter
        /\ last.arg.vote # voteCalls[c].arg.vote
        /\ last.arg.power # voteCalls[c].arg.power

\* ---------------------------------------------------------------- C16
StatusRank(st) ==
    CASE st = "pending" -> 0
      [] st = "voting" -> 1
      [] st = "approved" -> 2
      [] st = "released" -> 3
      [] st = "rejected" -> 3

\* C16: milestone status only moves forward along pending -> voting ->
\* approved -> released (or pending/voting -> rejected); 'released' and
\* 'rejected' are terminal, and no operation moves a status to an earlier one.
C16_StatusOnlyForward ==
    [][ \A m \in Milestones :
            /\ StatusRank(status'[m]) >= StatusRank(status[m])
            /\ status[m] \in {"released", "rejected"} => status'[m] = status[m]
            /\ status'[m] = "rejected" => status[m] \in {"pending", "voting",
                                                         "rejected"}
      ]_vars

\* ---------------------------------------------------------------- C17
\* C17: whenever voteOnMilestone returns an error to its caller (validation
\* error, duplicate vote, or a store failure at the insert, the tally re-read
\* or the status update), the recorded votes and the milestone status are as
\* before the call: a call that fails at its insert changes nothing, and a
\* call that fails after its insert leaves no row of its (milestone, voter)
\* pair, which had none before, and the status it found.
C17_VoteErrorLeavesNoTrace ==
    [][ /\ ( /\ last'.op = "voteOnMilestone"
             /\ last'.res \in {"ValidationError", "InvalidWeight",
                               "DuplicateVote"} )
           => UNCHANGED <<voteRows, status>>
        /\ \A c \in VoteCallIds :
               ( /\ voteCalls'[c].op = "idle"
                 /\ last'.op = "voteOnMilestone"
                 /\ last'.res = "StoreError" )
               => /\ status' = status
                  /\ voteCalls[c].op = "idle" => voteRows' = voteRows
                  /\ VoteInFlight(c)
                         => ~\E r \in voteRows' :
                                /\ r.milestone_id = voteCalls[c].arg.m
                                /\ r.voter_id = voteCalls[c].arg.voter
      ]_vars

\* ---------------------------------------------------------------- C18
\* C18: a vote cast with weight < 1 (zero, negative, or a fraction below one)
\* is rejected with the invalid-weight error before any mutation: no vote is
\* recorded, no tally changes and the token balance is unchanged; for
\* voteOnMilestone and for castVote.
C18_WeightBelowOneRejected ==
    [][ /\ ( /\ last'.op = "voteOnMilestone"
             /\ last'.arg.m # NoId /\ last'.arg.voter # NoId
             /\ IsBoolean(last'.arg.vote)
             /\ last'.arg.power < 1 )
           => /\ last'.res = "InvalidWeight"
              /\ UNCHANGED <<voteRows, status, tokenBalance, votes>>
        /\ ( /\ last'.op = "castVote"
             /\ last'.arg.weight < Tokens(1) )
           => /\ last'.res # "ok"
              /\ UNCHANGED <<voteRows, status, tokenBalance, votes>>
      ]_vars

\* ---------------------------------------------------------------- C20
\* C20: recording a contribution with amount <= 0 fails with the
\* invalid-amount error and mutates nothing: both insertTransaction and
\* updateFundedAmount reject it before any request, no transaction row is
\* appended and funded_amount is unchanged.
C20_NonPositiveAmountRejected ==
    [][ /\ ( /\ last'.op = "recordFunding"
             /\ fundCalls'[last'.c].arg.amount <= 0 )
           => /\ fundCalls'[last'.c].ins = "err"
              /\ fundCalls'[last'.c].inc = "err"
              /\ UNCHANGED <<transactions, funded_amount>>
        /\ last'.op \in {"insertTransaction", "updateFundedAmount"}
           => fundCalls[last'.c].arg.amount > 0
        /\ \A t \in transactions' : t.amount > 0
      ]_vars

\* After a contribution of 2 was recorded, a recordFunding of amount 0 for
\* the same project was rejected; the total is 2 and the ledger has one row.
C20_Witness ==
    /\ last.op = "recordFunding"
    /\ last.c = 2
    /\ fundCalls[2].arg.amount <= 0
    /\ fundCalls[2].arg.projectId = fundCalls[1].arg.projectId
    /\ fundCalls[2].arg.txHash # NoId
    /\ fundCalls[2].ins = "err" /\ fundCalls[2].inc = "err"
    /\ fundCalls[1].ins = "ok" /\ fundCalls[1].inc = "ok"
    /\ funded_amount[fundCalls[1].arg.projectId] = fundCalls[1].arg.amount
    /\ Cardinality(transactions) = 1

\* ---------------------------------------------------------------- C21
\* The amounts of the calls for project p whose insert the store accepted.
RECURSIVE InsertedSum(_, _)
InsertedSum(p, calls) ==
    IF calls = {} THEN 0
    ELSE LET c == CHOOSE x \in calls : TRUE
             a == IF /\ fundCalls[c].op = "recordFunding"
                     /\ fundCalls[c].ins = "ok"
                     /\ fundCalls[c].arg.projectId = p
                  THEN fundCalls[c].arg.amount ELSE 0
         IN  a + InsertedSum(p, calls \ {c})

\* C21: under every interleaving of concurrent contribution recordings,
\* getProjectFundingTotal(project), read in any state, is the sum of the
\* amounts of the 'funding' transactions recorded for that project at that
\* moment: the amounts of the contributions to it whose insert has been
\* accepted, and nothing of another project or another type.
C21_FundingTotalIsLedgerSum ==
    \A p \in Projects :
        /\ getProjectFundingTotal(p) = InsertedSum(p, FundCallIds)
        /\ getProjectFundingTotal(p)
               = SumAmounts({t \in transactions : t.project_id = p})
               - SumAmounts({t \in transactions :
                                t.project_id = p /\ t.type # "funding"})

\* Two contributions of different amounts to different projects are on the
\* ledger while the increment of one of them is still to run: each project's
\* total is its own contribution.
C21_Witness ==
    /\ fundCalls[1].op = "recordFunding" /\ fundCalls[2].op = "recordFunding"
    /\ fundCalls[1].ins = "ok" /\ fundCalls[2].ins = "ok"
    /\ fundCalls[1].inc = "pending"
    /\ fundCalls[1].arg.projectId # fundCalls[2].arg.projectId
    /\ fundCalls[1].arg.amount # fundCalls[2].arg.amount
    /\ getProjectFundingTotal(fundCalls[1].arg.projectId)
           = fundCalls[1].arg.amount
    /\ getProjectFundingTotal(fundCalls[2].arg.projectId)
           = fundCalls[2].arg.amount

\* ---------------------------------------------------------------- C22
\* C22: releaseMilestoneFunds with an amount greater than the locked balance
\* plus the fee tolerance fails before the ledger send and leaves the locked
\* balance unchanged; a successful release of amount a from the locked balance
\* L the call read leaves max(0, L - a); the locked balance is never negative.
C22_LockedFlooredAtZero ==
    [][ /\ ( /\ last'.op = "releaseMilestoneFunds"
             /\ last'.res \in {"sending", "InsufficientLockedFunds"}
             /\ last'.arg.amountBch > lockedAmount + FEE_TOLERANCE )
           => /\ last'.res = "InsufficientLockedFunds"
              /\ UNCHANGED <<lockedAmount, inflight, ledgerReleased>>
        /\ \A s \in Slots :
               ( /\ inflight[s].op = "release"
                 /\ inflight'[s].op = "idle"
                 /\ last'.res = "ok" )
               => LET L == inflight[s].locked
                      a == inflight[s].amountBch
                  IN  lockedAmount' = IF L - a > 0 THEN L - a ELSE 0
        /\ lockedAmount' >= 0
      ]_vars

\* A release of 0.0001 BCH, let through by the tolerance, has succeeded
\* against a smaller locked balance; the balance is floored at 0.
C22_Witness ==
    /\ last.op = "releaseMilestoneFunds"
    /\ last.res = "ok"
    /\ last.arg.amountBch = 10
    /\ tokenBalance = Tokens(2)
    /\ tokenCategory # NoId
    /\ lockedAmount = 0
    /\ nOps = 2

\* ---------------------------------------------------------------- C23
\* C23: a voteOnMilestone call that succeeds writes the milestone's status
\* from the tally it read: 'approved' when the YES weight is a strict majority
\* of the total, 'voting' otherwise; and the milestoneApproved it returns is
\* TRUE exactly when the status it wrote is 'approved'.
C23_StatusFollowsTally ==
    [][ ( /\ last'.op = "voteOnMilestone"
          /\ last'.res = "ok"
          /\ \E c \in VoteCallIds :
                 voteCalls[c].op = "status" /\ voteCalls'[c].op = "idle" )
        => LET m == last'.arg.m
               yes == last'.ret.yes
               no == last'.ret.no
           IN  /\ yes + no > 0
               /\ status'[m] = IF 2 * yes > yes + no THEN "approved"
                               ELSE "voting"
               /\ last'.ret.isApproved <=> status'[m] = "approved"
      ]_vars

\* A vote has been cast with success on a tally where YES is not ahead, no
\* call is in progress, and the milestone is 'voting'.
C23_Witness ==
    /\ last.op = "voteOnMilestone"
    /\ last.res = "ok"
    /\ last.ret.yes > 0
    /\ last.ret.no >= last.ret.yes
    /\ ~last.ret.isApproved
    /\ status[last.arg.m] = "voting"
    /\ \A c \in VoteCallIds : voteCalls[c].op = "idle"

\* ---------------------------------------------------------------- C26
\* C26: whether wallet.send mints the token or fails, the fundMilestoneContract
\* call whose amount passed the check succeeds, and credits the token balance
\* with the token amount and the locked balance with the BCH amount, the same
\* in both cases.
C26_SimulatedMintCreditsAlike ==
    [][ \A s \in Slots :
          ( inflight[s].op = "mint" /\ inflight'[s].op = "idle" )
          => /\ last'.op = "fundMilestoneContract"
             /\ last'.res = "ok"
             /\ tokenBalance'
                    = tokenBalance + Tokens(TokenAmount(inflight[s].amountBch))
             /\ lockedAmount' = lockedAmount + inflight[s].amountBch
             /\ last'.ret.newTokenBalance = tokenBalance'
             /\ tokenCategory' # NoId
      ]_vars

\* A mint whose wallet.send failed has credited 100 tokens and 0.001 BCH.
C26_Witness ==
    /\ last.op = "fundMilestoneContract"
    /\ last.res = "ok"
    /\ ~last.ret.minted
    /\ tokenCategory = "simulated"
    /\ last.arg.amountBch = 100
    /\ tokenBalance = Tokens(100)
    /\ lockedAmount = 100

\* ---------------------------------------------------------------- C27
\* C27: when a voteOnMilestone call on a milestone succeeds right after
\* another one on the same milestone succeeded, and no call is in progress
\* any more, the stored status agrees with the tally of all the votes recorded
\* for the milestone: 'approved' when YES is a strict majority of them,
\* 'voting' otherwise.
C27_StatusAgreesWithRecordedVotes ==
    [][ ( /\ last.op = "voteOnMilestone" /\ last.res = "ok"
          /\ last'.op = "voteOnMilestone" /\ last'.res = "ok"
          /\ last'.arg.m = last.arg.m
          /\ last'.arg.voter # last.arg.voter
          /\ \A c \in VoteCallIds : voteCalls'[c].op = "idle" )
        => LET m == last'.arg.m
               yes == PowerOf({r \in RowsOf(m) : r.vote})
               no == PowerOf({r \in RowsOf(m) : ~r.vote})
           IN  status'[m] = IF 2 * yes > yes + no THEN "approved"
                            ELSE "voting"
      ]_vars

\* ---------------------------------------------------------------- C28
\* C28: every release that succeeds lowers the locked balance of that moment
\* by the amount sent, floored at 0, and every mint that succeeds raises it by
\* the amount contributed, whatever other release or mint is in progress.
C28_LockedBalanceFollowsEveryCall ==
    [][ \A s \in Slots :
          /\ ( /\ inflight[s].op = "release" /\ inflight'[s].op = "idle"
               /\ last'.res = "ok" )
             => lockedAmount' = Max(0, lockedAmount - inflight[s].amountBch)
          /\ ( /\ inflight[s].op = "mint" /\ inflight'[s].op = "idle"
               /\ last'.res = "ok" )
             => lockedAmount' = lockedAmount + inflight[s].amountBch
      ]_vars

\* ---------------------------------------------------------------- C29
\* The tokens spent on votes, over all milestones and both directions.
RECURSIVE TokensOnVotes(_, _)
TokensOnVotes(v, ms) ==
    IF ms = {} THEN 0
    ELSE LET m == CHOOSE x \in ms : TRUE
         IN  v[m].yes + v[m].no + TokensOnVotes(v, ms \ {m})

\* C29: as long as clearContractState is not called, the token balance plus
\* the tokens recorded on the votes of all milestones is the total of the
\* tokens minted: a successful mint raises the sum by its token amount and
\* no other step, a castVote least of all, changes it.
C29_TokensAreConserved ==
    [][ last'.op # "clearContractState"
        => LET before == tokenBalance + TokensOnVotes(votes, Milestones)
               after == tokenBalance' + TokensOnVotes(votes', Milestones)
               minted == IF /\ last'.op = "fundMilestoneContract"
                            /\ last'.res = "ok"
                         THEN Tokens(last'.ret.tokenAmount) ELSE 0
           IN  after = before + minted
      ]_vars

\* Tokens minted by two contributions, part of them spent on a vote: the
\* balance and the tally add up to what was minted.
C29_Witness ==
    /\ last.op = "castVote"
    /\ last.res = "ok"
    /\ last.arg.weight >= Tokens(1)
    /\ tokenBalance > 0
    /\ TokensOnVotes(votes, Milestones) = last.arg.weight
    /\ tokenBalance + TokensOnVotes(votes, Milestones) = Tokens(102)

\* ---------------------------------------------------------------- C24
\* (yes / total) * 100 rounded to the nearest integer, a half rounded up.
RoundHalfUp(yes, total) == (200 * yes + total) \div (2 * total)

\* C24: the yesPercent that castVote and voteOnMilestone report for a tally
\* is yesWeight / total * 100 rounded to the nearest integer, halves rounded
\* up, and 0 when the total is 0; for 60 YES and 40 NO it is 60.
C24_YesPercentRoundsHalfUp ==
    ( /\ last.op \in {"castVote", "voteOnMilestone"}
      /\ last.res = "ok" )
    => LET total == last.ret.yes + last.ret.no
       IN  /\ last.ret.yesPercent
                  = IF total = 0 THEN 0 ELSE RoundHalfUp(last.ret.yes, total)
           /\ (2 * last.ret.yes = 3 * last.ret.no)
                  => last.ret.yesPercent = 60 /\ last.ret.isApproved

\* ---------------------------------------------------------------- C30
\* C30: wherever two of the approval computations have been applied to the
\* same non-negative integer tally, they agree: the status App.handleVote set
\* by yes > no, castVote's isApproved and isMilestoneApproved, the
\* milestoneApproved of voteOnMilestone with the status it wrote, and the
\* isApproved of fetchMilestonesByProject.
C30_ApprovalComputationsAgree ==
    LET app == project["m1"]
        appApproved == app.status = "Approved"
        sameLocal == /\ votes["m1"].yes = Tokens(app.votes.yes)
                     /\ votes["m1"].no = Tokens(app.votes.no)
        stored == Tally(voteRows, "m1")
        sameStored == /\ stored.yes = app.votes.yes
                      /\ stored.no = app.votes.no
                      /\ stored.yes + stored.no > 0
    IN  /\ sameLocal => (isMilestoneApproved("m1") <=> appApproved)
        /\ ( /\ sameLocal
             /\ last.op = "castVote" /\ last.res = "ok" )
           => (last.ret.isApproved <=> appApproved)
        /\ ( /\ sameStored
             /\ last.op = "voteOnMilestone" /\ last.res = "ok" )
           => /\ last.ret.isApproved <=> appApproved
              /\ status["m1"] = "approved" <=> appApproved
        /\ ( /\ sameStored
             /\ last.op = "fetchMilestonesByProject" /\ last.res = "ok" )
           => (last.ret["m1"].isApproved <=> appApproved)

\* App, the local contract state and the store hold the same tally, YES one
\* ahead of NO, and each of them has it approved.
C30_Witness ==
    /\ project["m1"].votes.yes = project["m1"].votes.no + 1
    /\ project["m1"].votes.no > 0
    /\ project["m1"].status = "Approved"
    /\ votes["m1"].yes = Tokens(project["m1"].votes.yes)
    /\ votes["m1"].no = Tokens(project["m1"].votes.no)
    /\ isMilestoneApproved("m1")
    /\ status["m1"] = "approved"
    /\ last.op = "fetchMilestonesByProject"
    /\ last.res = "ok"
    /\ last.ret["m1"].voteYes = project["m1"].votes.yes
    /\ last.ret["m1"].voteNo = project["m1"].votes.no
    /\ last.ret["m1"].isApproved

\* ---------------------------------------------------------------- C25
\* C25: in the flow of GovernancePanel, a milestone that is approved stays
\* approved, and funds are released for a milestone at most once: no send
\* succeeds for a milestone the ledger has already paid.
C25_ApprovedStaysReleasedOnce ==
    [][ \A m \in Milestones :
          /\ isMilestoneApproved(m) => isMilestoneApproved(m)'
          /\ ledgerReleased'[m] # ledgerReleased[m]
                 => /\ ledgerReleased[m] = 0
                    /\ isMilestoneApproved(m)
      ]_vars

====
